---- MODULE Spec2Model ----
(***************************************************************************)
(* Model of src/netsuite_all_functions.py: seven helper functions that     *)
(* call the NetSuite REST API.  Three of them page through a result set    *)
(* (fetch_all_netsuite_records, fetch_all_dataset_records,                 *)
(* run_suiteql_query); four issue a single request (fetch_record_by_id,    *)
(* create_netsuite_record, update_netsuite_record,                         *)
(* delete_netsuite_record).                                                *)
(*                                                                         *)
(* One behaviour of the model is one call of one helper.  The remote side  *)
(* (the `requests` transport and the vendor behind it) is the environment: *)
(* it answers each request with any response of a bounded set, or fails to *)
(* answer at all, in which case `requests` raises.                         *)
(*                                                                         *)
(* Values.  A string that the code takes apart (the Location header) is a  *)
(* sequence of one-character strings.  A record of a page is a natural     *)
(* number.  A JSON object is the set of its <<key, value>> pairs other     *)
(* than "items" and "hasMore", which have fields of their own.             *)
(***************************************************************************)
EXTENDS Integers, Sequences, FiniteSets

VARIABLES
    op,         \* the helper that was called ("" before the call)
    pc,         \* "idle", "request", "await", "done" (returned), "raised"
    limit,      \* the `limit` local / argument (NoParam where there is none)
    offset,     \* the `offset` local of a pagination loop
    all_items,  \* the `all_items` local of a pagination loop
    result,     \* the value returned to the caller
    reqs,       \* history: the requests issued, in order
    resps,      \* history: the responses received, in order
    vendor      \* the remote side: any answer, or a fixed result set

vars == <<op, pc, limit, offset, all_items, result, reqs, resps, vendor>>

----------------------------------------------------------------------------
(* Bounds of the model *)

\* A pagination loop is cut after this many requests.
MaxRequests == 3

\* Short pages hold 0..MaxLen records; small limits are 0..MaxLen.
MaxLen == 1

\* Location header values are all strings of at most this many characters.
MaxLocLen == 3

\* The fixed result sets of the serving vendor hold 0..MaxTotal records.
MaxTotal == 4

(* Program constants *)

\* limit = 1000 in run_suiteql_query
SuiteQLLimit == 1000

\* limit: int = 1000 in fetch_all_dataset_records
DefaultDatasetLimit == 1000

\* A request without a limit parameter (fetch_all_netsuite_records).
NoParam == -1

----------------------------------------------------------------------------
(* Strings as sequences of characters *)

LocChars == {"/", "c", "4"}

Strings(n) == UNION {[1..k -> LocChars] : k \in 0..n}

\* ".../record/v1/customer/4821"
ExampleLocation ==
    <<".", ".", ".", "/", "r", "e", "c", "o", "r", "d", "/", "v", "1", "/",
      "c", "u", "s", "t", "o", "m", "e", "r", "/", "4", "8", "2", "1">>

\* str.rstrip("/"): drop every trailing "/".
RECURSIVE RStrip(_)
RStrip(s) ==
    IF s = <<>> THEN s
    ELSE IF s[Len(s)] = "/" THEN RStrip(SubSeq(s, 1, Len(s) - 1))
    ELSE s

\* str.split("/")[-1]: what follows the last "/" (all of s when it has none).
RECURSIVE LastSplit(_)
LastSplit(s) ==
    IF s = <<>> THEN <<>>
    ELSE IF s[Len(s)] = "/" THEN <<>>
    ELSE Append(LastSplit(SubSeq(s, 1, Len(s) - 1)), s[Len(s)])

----------------------------------------------------------------------------
(* JSON bodies and HTTP responses *)

\* A JSON object: its "items" array (when the key is there), its "hasMore"
\* flag (when the key is there) and its other key/value pairs.
Obj(map, hasItems, items, hasMore) ==
    [json |-> "object", map |-> map, hasItems |-> hasItems,
     items |-> items, hasMore |-> hasMore]

\* {}
EmptyObject == Obj({}, FALSE, <<>>, "absent")

\* A body that is JSON but no object, e.g. [].
ArrayBody == [EmptyObject EXCEPT !.json = "array"]

\* A body that is not JSON at all (empty, HTML, cut short).
InvalidBody == [EmptyObject EXCEPT !.json = "invalid"]

\* The records start, start+1, ..., start+n-1 of the vendor's result set.
Page(start, n) == [i \in 1..n |-> start + i - 1]

PageLens == (0..MaxLen) \cup {250, SuiteQLLimit}

\* What a vendor may answer to a page request at cursor `at`: the slice at
\* the cursor, of any length, flagged either way; a replay of the head of the
\* result set; an object without "items"; the flag may be left out.
PageBodies(at) ==
    {Obj({}, TRUE, Page(at, n), h) : n \in PageLens, h \in {"true", "false"}}
    \cup {Obj({}, TRUE, Page(0, MaxLen), h) : h \in {"true", "absent"}}
    \cup {Obj({}, FALSE, <<>>, h) : h \in {"true", "absent"}}

\* An error response may carry anything; one body that looks like a page
\* and one that does not parse.
ErrorBodies(at) == {InvalidBody, Obj({}, TRUE, Page(at, MaxLen + 1), "true")}

Statuses == {200, 201, 204, 404, 500}

Locations == Strings(MaxLocLen) \cup {ExampleLocation}

Response(status, body, hasLocation, location) ==
    [status |-> status, body |-> body,
     hasLocation |-> hasLocation, location |-> location]

\* Responses to a page request at cursor `at`.
PageResponses(at) ==
    {Response(200, b, FALSE, <<>>) :
        b \in PageBodies(at) \cup {ArrayBody, InvalidBody}}
    \cup {Response(s, b, FALSE, <<>>) :
        s \in Statuses \ {200}, b \in ErrorBodies(at)}

RecordBodies ==
    {Obj({<<"id", <<"4">>>>}, FALSE, <<>>, "absent"),
     Obj({<<"name", <<"c">>>>}, FALSE, <<>>, "absent"),
     EmptyObject, ArrayBody, InvalidBody}

\* Responses to a single-record request.
RecordResponses ==
    {Response(s, b, FALSE, <<>>) : s \in Statuses, b \in RecordBodies}
    \cup {Response(s, b, TRUE, l) :
        s \in Statuses, b \in RecordBodies, l \in Locations}

----------------------------------------------------------------------------
(* What a call hands back *)

NoResult ==
    [tag |-> "none", json |-> EmptyObject, list |-> <<>>, bool |-> FALSE,
     exc |-> ""]

\* return None
Null == [NoResult EXCEPT !.tag = "null"]

\* return <a JSON value>
JsonResult(v) == [NoResult EXCEPT !.tag = "json", !.json = v]

\* return all_items
ListResult(l) == [NoResult EXCEPT !.tag = "list", !.list = l]

\* return True / False
BoolResult(b) == [NoResult EXCEPT !.tag = "bool", !.bool = b]

\* An exception that leaves the function.
Exception(name) == [NoResult EXCEPT !.tag = "exception", !.exc = name]

----------------------------------------------------------------------------
(* The code's decisions, one operator each *)

\* response.json(): raises on a body that is not JSON.
JsonRaises(resp) == resp.body.json = "invalid"

\* data.get(...) / result.get(...): a JSON value that is no object has no .get
GetRaises(resp) == resp.body.json = "array"

\* data.get("items", [])
GetItems(body) == IF body.hasItems THEN body.items ELSE <<>>

\* data.get("hasMore", False) / data.get("hasMore"), taken as a truth value
GetHasMore(body) == body.hasMore = "true"

\* Mutant of Extend: the new page goes in front of what was gathered.
ExtendAtFront(all, items) == items \o all

\* all_items.extend(items)
Extend(all, items) == all \o items

\* Mutant of ListFailed: only a server error stops the loop.
ListFailedOnServerError(status) == status >= 500

\* Mutant of ListFailed: any 2xx status the other functions accept goes on.
ListFailedUnless200Or201(status) == status \notin {200, 201}

\* fetch_all_netsuite_records: if response.status_code != 200: ... break
ListFailed(status) == status # 200

\* Mutant of ListNextOffset: the cursor moves by a fixed page size.
ListNextOffsetByPageSize(cursor, items) == cursor + DefaultDatasetLimit

\* fetch_all_netsuite_records: offset += len(items)
ListNextOffset(cursor, items) == cursor + Len(items)

\* fetch_all_dataset_records: if response.status_code != 200: ... break
DatasetFailed(status) == status # 200

\* Mutant of DatasetNextOffset: offset = limit for offset += limit.
DatasetNextOffsetAssigned(cursor, lim) == lim

\* fetch_all_dataset_records: offset += limit
DatasetNextOffset(cursor, lim) == cursor + lim

\* run_suiteql_query: if response.status_code == 200:
QueryOk(status) == status = 200

\* Mutant of QueryLastPage: <= for <, a full page ends the loop too.
QueryLastPageOrFull(items, lim) == Len(items) <= lim

\* run_suiteql_query: if len(items) < limit: break
QueryLastPage(items, lim) == Len(items) < lim

\* run_suiteql_query: offset += limit
QueryNextOffset(cursor, lim) == cursor + lim

\* Mutant of IdFromLocation: the trailing "/" is not stripped.
IdFromLocationUnstripped(location) == LastSplit(location)

\* location.rstrip("/").split("/")[-1]
IdFromLocation(location) == LastSplit(RStrip(location))

\* Mutant of FetchByIdResult: a failure returns {} as update does on 204.
FetchByIdResultEmptyOnFailure(resp) ==
    IF resp.status = 200
    THEN IF JsonRaises(resp) THEN Exception("JSONDecodeError")
         ELSE JsonResult(resp.body)
    ELSE JsonResult(EmptyObject)

\* fetch_record_by_id, after the GET
FetchByIdResult(resp) ==
    IF resp.status = 200
    THEN IF JsonRaises(resp) THEN Exception("JSONDecodeError")
         ELSE JsonResult(resp.body)
    ELSE Null

\* create_netsuite_record, after the POST
CreateResult(resp) ==
    IF resp.status \in {200, 201}
    THEN IF JsonRaises(resp) THEN Exception("JSONDecodeError")
         ELSE IF GetRaises(resp) THEN Exception("AttributeError")
         ELSE JsonResult(resp.body)
    ELSE IF resp.status = 204
    THEN IF resp.hasLocation /\ resp.location # <<>>
         THEN JsonResult(Obj({<<"id", IdFromLocation(resp.location)>>},
                             FALSE, <<>>, "absent"))
         ELSE JsonResult(EmptyObject)
    ELSE Null

\* update_netsuite_record, after the PATCH
UpdateResult(resp) ==
    IF resp.status \in {200, 201}
    THEN IF JsonRaises(resp) THEN Exception("JSONDecodeError")
         ELSE JsonResult(resp.body)
    ELSE IF resp.status = 204 THEN JsonResult(EmptyObject)
    ELSE Null

\* Mutant of DeleteResult: 200 counts as deleted too.
DeleteResultOn200Too(resp) ==
    IF resp.status \in {200, 204} THEN BoolResult(TRUE) ELSE BoolResult(FALSE)

\* delete_netsuite_record, after the DELETE
DeleteResult(resp) ==
    IF resp.status = 204 THEN BoolResult(TRUE) ELSE BoolResult(FALSE)

----------------------------------------------------------------------------
(* The remote side *)

\* A vendor that may answer anything.
AnyVendor == [mode |-> "any", total |-> 0, page |-> 0]

Totals == (0..MaxTotal) \cup {SuiteQLLimit, 2 * SuiteQLLimit, 2 * SuiteQLLimit + 250}

PageSizes == (1..MaxLen) \cup {DefaultDatasetLimit}

\* A vendor that always answers 200 and serves the records 0..total-1; `page`
\* is its page size where the request names no limit.
ServingVendors ==
    {[mode |-> "serve", total |-> t, page |-> p] : t \in Totals, p \in PageSizes}

Min(a, b) == IF a < b THEN a ELSE b

\* The answers of a serving vendor to a request at cursor `at` for `size`
\* records: the slice at the cursor, with hasMore true exactly when records
\* remain beyond it (false or left out otherwise).
ServedResponses(total, at, size) ==
    LET n == IF at >= total THEN 0 ELSE Min(size, total - at)
    IN  {Response(200, Obj({}, TRUE, Page(at, n), h), FALSE, <<>>) :
            h \in IF at + n < total THEN {"true"} ELSE {"false", "absent"}}

\* The page size a serving vendor uses for the request the caller is
\* waiting on.
ServedSize == IF limit = NoParam THEN vendor.page ELSE limit

\* The requests a run against a serving vendor of `total` records needs
\* when pages hold `size` records: no more than MaxRequests.
WithinRequests(total, size) == (total \div size) + 1 <= MaxRequests

----------------------------------------------------------------------------
(* State *)

Request(method, path, lim, cursor) ==
    [method |-> method, path |-> path, limit |-> lim, offset |-> cursor]

Init ==
    /\ op = ""
    /\ pc = "idle"
    /\ limit = NoParam
    /\ offset = 0
    /\ all_items = <<>>
    /\ result = NoResult
    /\ reqs = <<>>
    /\ resps = <<>>
    /\ vendor = AnyVendor

InitServe ==
    /\ op = ""
    /\ pc = "idle"
    /\ limit = NoParam
    /\ offset = 0
    /\ all_items = <<>>
    /\ result = NoResult
    /\ reqs = <<>>
    /\ resps = <<>>
    /\ vendor \in ServingVendors

\* Entry of a function: its locals are set, nothing is sent yet.
Enter(name, lim) ==
    /\ pc = "idle"
    /\ op' = name
    /\ pc' = "request"
    /\ limit' = lim
    /\ offset' = 0
    /\ all_items' = <<>>
    /\ UNCHANGED <<result, reqs, resps, vendor>>

\* fetch_all_netsuite_records(auth, endpoint)
CallList == Enter("list", NoParam)

\* fetch_all_dataset_records(auth, dataset_id, limit)
CallDataset(lim) == Enter("dataset", lim)

\* run_suiteql_query(auth, query_string)
CallQuery == Enter("query", SuiteQLLimit)

\* fetch_record_by_id(auth, endpoint, record_id)
CallFetchById == Enter("fetch_by_id", NoParam)

\* create_netsuite_record(auth, endpoint, payload)
CallCreate == Enter("create", NoParam)

\* update_netsuite_record(auth, endpoint, record_id, payload)
CallUpdate == Enter("update", NoParam)

\* delete_netsuite_record(auth, endpoint, record_id)
CallDelete == Enter("delete", NoParam)

\* The request a function sends from its current locals.
RequestOf(name, lim, cursor) ==
    CASE name = "list" -> Request("GET", "record", NoParam, cursor)
      [] name = "dataset" -> Request("GET", "dataset", lim, cursor)
      [] name = "query" -> Request("POST", "suiteql", lim, cursor)
      [] name = "fetch_by_id" -> Request("GET", "record/id", NoParam, NoParam)
      [] name = "create" -> Request("POST", "record", NoParam, NoParam)
      [] name = "update" -> Request("PATCH", "record/id", NoParam, NoParam)
      [] name = "delete" -> Request("DELETE", "record/id", NoParam, NoParam)

\* requests.get / post / patch / delete: the request goes out.
SendRequest ==
    /\ pc = "request"
    /\ Len(reqs) < MaxRequests
    /\ reqs' = Append(reqs, RequestOf(op, limit, offset))
    /\ pc' = "await"
    /\ UNCHANGED <<op, limit, offset, all_items, result, resps, vendor>>

\* requests raises (connection refused, DNS, TLS, ...): no handler in any of
\* the functions catches it.
TransportFailure ==
    /\ pc = "await"
    /\ pc' = "raised"
    /\ result' = Exception("RequestException")
    /\ UNCHANGED <<op, limit, offset, all_items, reqs, resps, vendor>>

\* The end of a pagination loop: break, then return all_items.
Break(items) ==
    /\ all_items' = items
    /\ result' = ListResult(items)
    /\ pc' = "done"
    /\ UNCHANGED offset

\* An exception leaves a pagination loop.
Raise(name) ==
    /\ result' = Exception(name)
    /\ pc' = "raised"
    /\ UNCHANGED <<offset, all_items>>

\* The next turn of a pagination loop.
Continue(items, cursor) ==
    /\ all_items' = items
    /\ offset' = cursor
    /\ pc' = "request"
    /\ UNCHANGED result

\* fetch_all_netsuite_records: one response, to the end of the loop body.
RecvList(resp) ==
    /\ pc = "await"
    /\ op = "list"
    /\ resps' = Append(resps, resp)
    /\ IF ListFailed(resp.status) THEN Break(all_items)
       ELSE IF JsonRaises(resp) THEN Raise("JSONDecodeError")
       ELSE IF GetRaises(resp) THEN Raise("AttributeError")
       ELSE LET items == GetItems(resp.body)
            IN  IF ~GetHasMore(resp.body) THEN Break(Extend(all_items, items))
                ELSE Continue(Extend(all_items, items),
                              ListNextOffset(offset, items))
    /\ UNCHANGED <<op, limit, reqs, vendor>>

\* fetch_all_dataset_records: one response, to the end of the loop body.
RecvDataset(resp) ==
    /\ pc = "await"
    /\ op = "dataset"
    /\ resps' = Append(resps, resp)
    /\ IF DatasetFailed(resp.status) THEN Break(all_items)
       ELSE IF JsonRaises(resp) THEN Raise("JSONDecodeError")
       ELSE IF GetRaises(resp) THEN Raise("AttributeError")
       ELSE LET items == GetItems(resp.body)
            IN  IF ~GetHasMore(resp.body) THEN Break(Extend(all_items, items))
                ELSE Continue(Extend(all_items, items),
                              DatasetNextOffset(offset, limit))
    /\ UNCHANGED <<op, limit, reqs, vendor>>

\* run_suiteql_query: one response, to the end of the loop body.
RecvQuery(resp) ==
    /\ pc = "await"
    /\ op = "query"
    /\ resps' = Append(resps, resp)
    /\ IF ~QueryOk(resp.status) THEN Break(all_items)
       ELSE IF JsonRaises(resp) THEN Raise("JSONDecodeError")
       ELSE IF GetRaises(resp) THEN Raise("AttributeError")
       ELSE LET items == GetItems(resp.body)
            IN  IF QueryLastPage(items, limit)
                THEN Break(Extend(all_items, items))
                ELSE Continue(Extend(all_items, items),
                              QueryNextOffset(offset, limit))
    /\ UNCHANGED <<op, limit, reqs, vendor>>

\* The end of a single-request function: return, or an exception.
Finish(value) ==
    /\ result' = value
    /\ pc' = IF value.tag = "exception" THEN "raised" ELSE "done"
    /\ UNCHANGED <<op, limit, offset, all_items, reqs, vendor>>

\* fetch_record_by_id: the response.
RecvFetchById(resp) ==
    /\ pc = "await"
    /\ op = "fetch_by_id"
    /\ resps' = Append(resps, resp)
    /\ Finish(FetchByIdResult(resp))

\* create_netsuite_record: the response.
RecvCreate(resp) ==
    /\ pc = "await"
    /\ op = "create"
    /\ resps' = Append(resps, resp)
    /\ Finish(CreateResult(resp))

\* update_netsuite_record: the response.
RecvUpdate(resp) ==
    /\ pc = "await"
    /\ op = "update"
    /\ resps' = Append(resps, resp)
    /\ Finish(UpdateResult(resp))

\* delete_netsuite_record: the response.
RecvDelete(resp) ==
    /\ pc = "await"
    /\ op = "delete"
    /\ resps' = Append(resps, resp)
    /\ Finish(DeleteResult(resp))

DatasetLimits == (0..MaxLen) \cup {DefaultDatasetLimit}

Next ==
    \/ CallList
    \/ \E lim \in DatasetLimits : CallDataset(lim)
    \/ CallQuery
    \/ CallFetchById
    \/ CallCreate
    \/ CallUpdate
    \/ CallDelete
    \/ SendRequest
    \/ TransportFailure
    \/ \E resp \in PageResponses(offset) : RecvList(resp)
    \/ \E resp \in PageResponses(offset) : RecvDataset(resp)
    \/ \E resp \in PageResponses(offset) : RecvQuery(resp)
    \/ \E resp \in RecordResponses : RecvFetchById(resp)
    \/ \E resp \in RecordResponses : RecvCreate(resp)
    \/ \E resp \in RecordResponses : RecvUpdate(resp)
    \/ \E resp \in RecordResponses : RecvDelete(resp)

Spec == Init /\ [][Next]_vars

\* The paginated fetchers against a serving vendor.
NextServe ==
    \/ WithinRequests(vendor.total, vendor.page) /\ CallList
    \/ \E lim \in PageSizes :
          WithinRequests(vendor.total, lim) /\ CallDataset(lim)
    \/ WithinRequests(vendor.total, SuiteQLLimit) /\ CallQuery
    \/ SendRequest
    \/ \E resp \in ServedResponses(vendor.total, offset, ServedSize) :
          RecvList(resp)
    \/ \E resp \in ServedResponses(vendor.total, offset, ServedSize) :
          RecvDataset(resp)
    \/ \E resp \in ServedResponses(vendor.total, offset, ServedSize) :
          RecvQuery(resp)

\* Each function runs straight through: a step that can be taken is taken.
SpecServe == InitServe /\ [][NextServe]_vars /\ WF_vars(NextServe)

----------------------------------------------------------------------------
(* Vocabulary of the properties *)

Fetchers == {"list", "dataset", "query"}

Returned == pc = "done"

Last(s) == s[Len(s)]

\* The items a response carries.
ItemsIn(r) ==
    IF r.body.json = "object" /\ r.body.hasItems THEN r.body.items ELSE <<>>

\* The items of responses 1..k, one after the other.
RECURSIVE ConcatItems(_, _)
ConcatItems(rs, k) ==
    IF k = 0 THEN <<>> ELSE ConcatItems(rs, k - 1) \o ItemsIn(rs[k])

\* The number of items in responses 1..k.
RECURSIVE CountItems(_, _)
CountItems(rs, k) ==
    IF k = 0 THEN 0 ELSE CountItems(rs, k - 1) + Len(ItemsIn(rs[k]))

\* The transport gave no response to the last request.
TransportFailed == pc = "raised" /\ result.exc = "RequestException"

\* A response with status 200 and a JSON object for a body.
GoodPage(r) == r.status = 200 /\ r.body.json = "object"

\* The response tells this fetcher to go on: the flag for the record-list and
\* dataset variants, a page of at least `limit` items for the query variant.
SaysMore(r) ==
    IF op = "query" THEN Len(ItemsIn(r)) >= limit ELSE r.body.hasMore = "true"

\* The page size of a run of uniform pages: the limit sent, or, where no
\* limit is sent, the size of the first page.
UniformSize ==
    IF op = "list"
    THEN (IF resps = <<>> THEN 0 ELSE Len(ItemsIn(resps[1])))
    ELSE limit

\* Responses 1..k are full pages that say to go on.
FullPages(k) ==
    \A i \in 1..k :
        /\ GoodPage(resps[i])
        /\ Len(ItemsIn(resps[i])) = UniformSize
        /\ SaysMore(resps[i])

\* Request i asked for the page at cursor (i-1) * size.
CursorsInSteps(size) ==
    \A i \in 1..Len(reqs) : reqs[i].offset = (i - 1) * size

----------------------------------------------------------------------------
(* C1: for each paginated fetcher, when a response has a status other than *)
(* 200 (the first such response is the last one received), the fetcher has *)
(* returned, it has issued no request after the one that failed, and what  *)
(* it returned is the items of the pages before it, in order: the empty    *)
(* sequence when the first call fails.                                     *)
C1_StopsAtFirstFailure ==
    (op \in Fetchers /\ resps # <<>> /\ Last(resps).status # 200) =>
        /\ Returned
        /\ Len(reqs) = Len(resps)
        /\ \A i \in 1..(Len(resps) - 1) : GoodPage(resps[i])
        /\ result = ListResult(ConcatItems(resps, Len(resps) - 1))
        /\ (Len(resps) = 1 => result.list = <<>>)

\* A third call fails after two pages that brought items.
C1_Witness ==
    /\ op \in Fetchers
    /\ Returned
    /\ Len(resps) = 3
    /\ resps[3].status = 500
    /\ resps[3].body.hasItems
    /\ Len(result.list) > SuiteQLLimit

(* C2: for each paginated fetcher, after N full pages that say to go on    *)
(* the fetcher is still running and has asked for the cursors 0, size,     *)
(* 2*size, ...; when the next page is short (query variant) or is flagged  *)
(* hasMore = false or carries no flag (record-list and dataset variants),  *)
(* it has returned after exactly N+1 requests, and the result is the items *)
(* of the N+1 pages in request order, nothing dropped and nothing moved.   *)
(* (A request the transport does not answer is not a page returned.)       *)
C2_FullPagesThenLastPage ==
    (op \in Fetchers /\ resps # <<>> /\ ~TransportFailed) =>
        LET n == Len(resps)
        IN  /\ FullPages(n) =>
                /\ pc \in {"request", "await"}
                /\ Len(reqs) \in {n, n + 1}
                /\ all_items = ConcatItems(resps, n)
                /\ CursorsInSteps(UniformSize)
            /\ (FullPages(n - 1) /\ GoodPage(resps[n]) /\ ~SaysMore(resps[n])) =>
                /\ Returned
                /\ Len(reqs) = n
                /\ result = ListResult(ConcatItems(resps, n))
                /\ Len(result.list) = CountItems(resps, n)
                /\ CursorsInSteps(UniformSize)

\* Pages of 1000, 1000 and 250 items flagged true, true, false: 2250 items
\* from three requests at cursors 0, 1000, 2000.
C2_Witness ==
    /\ op \in Fetchers
    /\ Returned
    /\ Len(resps) = 3
    /\ \A i \in 1..3 : GoodPage(resps[i])
    /\ <<Len(ItemsIn(resps[1])), Len(ItemsIn(resps[2])), Len(ItemsIn(resps[3]))>>
           = <<1000, 1000, 250>>
    /\ <<resps[1].body.hasMore, resps[2].body.hasMore, resps[3].body.hasMore>>
           = <<"true", "true", "false">>
    /\ Len(result.list) = 2250
    /\ result.list = Page(0, 2250)
    /\ Len(reqs) = 3
    /\ <<reqs[1].offset, reqs[2].offset, reqs[3].offset>> = <<0, 1000, 2000>>

(* C3: record-list variant: the first request asks for cursor 0 and every  *)
(* later request k+1 asks for the cursor that is the number of items       *)
(* received in pages 1..k; whenever the loop goes round again the cursor   *)
(* is the number of items received so far.                                 *)
C3_ListCursorIsItemCount ==
    op = "list" =>
        /\ \A k \in 1..Len(reqs) : reqs[k].offset = CountItems(resps, k - 1)
        /\ (pc \in {"request", "await"} /\ Len(reqs) = Len(resps)) =>
               offset = CountItems(resps, Len(resps))
        /\ pc = "await" => offset = reqs[Len(reqs)].offset

\* Pages of 1000 and 1 items: the third request asks for cursor 1001, which
\* is no multiple of a page size.
C3_Witness ==
    /\ op = "list"
    /\ Len(reqs) = 3
    /\ Len(ItemsIn(resps[1])) = SuiteQLLimit
    /\ Len(ItemsIn(resps[2])) = 1
    /\ reqs[3].offset = SuiteQLLimit + 1

----------------------------------------------------------------------------
(* Single-record operations *)

\* The function has ended, by a return or by an exception, after a response.
Answered(name) == op = name /\ pc \in {"done", "raised"} /\ Len(resps) = 1

\* The largest element of a finite set of naturals holding 0.
Greatest(S) == CHOOSE m \in S : \A x \in S : x <= m

\* s without its trailing "/" characters.
Trimmed(s) ==
    SubSeq(s, 1, Greatest({0} \cup {i \in 1..Len(s) : s[i] # "/"}))

\* The last "/"-delimited segment of a path, its trailing "/" put aside:
\* what follows the last "/" that is left.
LastSegment(s) ==
    LET t == Trimmed(s)
    IN  SubSeq(t, Greatest({0} \cup {i \in 1..Len(t) : t[i] = "/"}) + 1, Len(t))

\* The mapping {"id": id}.
IdObject(id) == Obj({<<"id", id>>}, FALSE, <<>>, "absent")

\* One request, of the method the function uses.
OneRequest(method) == Len(reqs) = 1 /\ reqs[1].method = method

(* C5 as first stated: create_netsuite_record issues one POST; 200 or 201  *)
(* returns the parsed body; 204 with a Location header returns a mapping   *)
(* whose id is the last "/"-delimited segment of the header; 204 without   *)
(* the header returns an empty mapping; any other status returns null.     *)
C5_AnyLocationGivesId ==
    Answered("create") =>
        LET r == resps[1]
        IN  /\ OneRequest("POST")
            /\ (r.status \in {200, 201} /\ r.body.json = "object") =>
                   result = JsonResult(r.body)
            /\ (r.status = 204 /\ r.hasLocation) =>
                   result = JsonResult(IdObject(LastSegment(r.location)))
            /\ (r.status = 204 /\ ~r.hasLocation) =>
                   result = JsonResult(EmptyObject)
            /\ r.status \notin {200, 201, 204} => result = Null

(* C5, amended: as above, but the id is taken from a Location header that  *)
(* is not empty; a 204 whose Location header is absent or empty returns an *)
(* empty mapping.  '.../record/v1/customer/4821' gives "4821".             *)
C5_CreateResult ==
    Answered("create") =>
        LET r == resps[1]
        IN  /\ OneRequest("POST")
            /\ (r.status \in {200, 201} /\ r.body.json = "object") =>
                   /\ Returned
                   /\ result = JsonResult(r.body)
            /\ (r.status = 204 /\ r.hasLocation /\ r.location # <<>>) =>
                   /\ Returned
                   /\ result = JsonResult(IdObject(LastSegment(r.location)))
            /\ (r.status = 204 /\ r.hasLocation /\ r.location = ExampleLocation) =>
                   result = JsonResult(IdObject(<<"4", "8", "2", "1">>))
            /\ (r.status = 204 /\ (~r.hasLocation \/ r.location = <<>>)) =>
                   /\ Returned
                   /\ result = JsonResult(EmptyObject)
                   /\ result # Null
            /\ r.status \notin {200, 201, 204} =>
                   /\ Returned
                   /\ result = Null

\* A 204 whose Location ends in "/": the id is the segment before it.
C5_Witness ==
    /\ Answered("create")
    /\ resps[1].status = 204
    /\ resps[1].hasLocation
    /\ resps[1].location = <<"/", "4", "/">>
    /\ result = JsonResult(IdObject(<<"4">>))

(* C6: update_netsuite_record returns the parsed body on 200 and 201, an   *)
(* empty mapping on 204 and null on every other status;                    *)
(* delete_netsuite_record returns true on 204 and false on every other     *)
(* status, 200 and 201 included.  Each issues exactly one request.         *)
C6_UpdateAndDeleteResults ==
    /\ op \in {"update", "delete"} => Len(reqs) <= 1
    /\ Answered("update") =>
        LET r == resps[1]
        IN  /\ OneRequest("PATCH")
            /\ (r.status \in {200, 201} /\ r.body.json # "invalid") =>
                   /\ Returned
                   /\ result = JsonResult(r.body)
            /\ r.status = 204 => (Returned /\ result = JsonResult(EmptyObject))
            /\ r.status \notin {200, 201, 204} => (Returned /\ result = Null)
    /\ Answered("delete") =>
        LET r == resps[1]
        IN  /\ OneRequest("DELETE")
            /\ Returned
            /\ result.tag = "bool"
            /\ result.bool <=> (r.status = 204)

\* A delete answered 200 returns false.
C6_Witness ==
    /\ Answered("delete")
    /\ resps[1].status = 200
    /\ result = BoolResult(FALSE)

(* C7: fetch_record_by_id issues exactly one GET and returns the parsed    *)
(* body when the status is 200, and null (no empty mapping, no exception)  *)
(* for any other status.                                                   *)
C7_FetchByIdResult ==
    /\ op = "fetch_by_id" => Len(reqs) <= 1
    /\ Answered("fetch_by_id") =>
        LET r == resps[1]
        IN  /\ OneRequest("GET")
            /\ (r.status = 200 /\ r.body.json # "invalid") =>
                   /\ Returned
                   /\ result = JsonResult(r.body)
            /\ r.status # 200 =>
                   /\ Returned
                   /\ result.tag = "null"
                   /\ result = Null

\* A fetch answered 404, with a body that is a JSON object, returns null.
C7_Witness ==
    /\ Answered("fetch_by_id")
    /\ resps[1].status = 404
    /\ resps[1].body.json = "object"
    /\ result = Null

(* C8: no exception leaves any of the seven functions, whatever the        *)
(* outcome of a request: every call that ends, ends by returning.          *)
C8_NoExceptionEscapes == pc # "raised"

(* C9 as first stated: status 201 is a success for record fetch and record *)
(* list: fetch_record_by_id returns the body, fetch_all_netsuite_records   *)
(* takes the page's items and goes on as its hasMore says.                 *)
C9_Accepts201 ==
    /\ (Answered("fetch_by_id") /\ resps[1].status = 201
            /\ resps[1].body.json = "object") =>
           result = JsonResult(resps[1].body)
    /\ (op = "list" /\ resps # <<>> /\ Last(resps).status = 201
            /\ Last(resps).body.json = "object") =>
           /\ all_items = ConcatItems(resps, Len(resps))
           /\ Last(resps).body.hasMore = "true" => ~Returned

(* C9, amended: 200 is the only status record fetch and record list take   *)
(* for a success.  On 201 fetch_record_by_id returns null, and             *)
(* fetch_all_netsuite_records drops the page, sends nothing more and       *)
(* returns the items of the pages before it.                               *)
C9_Only200Succeeds ==
    /\ (Answered("fetch_by_id") /\ resps[1].status = 201) =>
           (Returned /\ result = Null)
    /\ (op = "list" /\ resps # <<>> /\ Last(resps).status = 201) =>
           /\ Returned
           /\ Len(reqs) = Len(resps)
           /\ all_items = ConcatItems(resps, Len(resps) - 1)
           /\ result = ListResult(all_items)

\* A record list whose second page comes with status 201, items and
\* hasMore = true: the result is the first page alone.
C9_Witness ==
    /\ op = "list"
    /\ Returned
    /\ Len(resps) = 2
    /\ resps[2].status = 201
    /\ ItemsIn(resps[2]) # <<>>
    /\ resps[2].body.hasMore = "true"
    /\ result.list = ItemsIn(resps[1])
    /\ result.list # <<>>

----------------------------------------------------------------------------
(* Against a serving vendor *)

\* The offsets of successive requests strictly increase.
OffsetsIncrease ==
    \A i, j \in 1..Len(reqs) : i < j => reqs[i].offset < reqs[j].offset

\* What was returned is every record of the result set once, in order.
EveryRecordOnce ==
    Returned =>
        /\ result = ListResult(Page(0, vendor.total))
        /\ Len(result.list) = vendor.total
        /\ \A i \in 1..Len(result.list) : result.list[i] = i - 1

\* A page with no items and no hasMore = true ends the loop.
EmptyLastPageEnds ==
    (resps # <<>> /\ ItemsIn(Last(resps)) = <<>>
        /\ Last(resps).body.hasMore # "true") => Returned

(* C10: against a vendor that always answers 200 and serves a fixed result *)
(* set with a positive page size, every paginated fetcher that is called   *)
(* returns; the offsets of its requests strictly increase; its result is   *)
(* every record once in ascending order; and a page with zero items and no *)
(* continuation flag ends the loop.                                        *)
C10_ServedRunReturnsAll ==
    /\ [](OffsetsIncrease /\ EveryRecordOnce /\ EmptyLastPageEnds)
    /\ [](pc # "raised")
    /\ (pc # "idle") ~> Returned

\* The query variant reads 2000 records in two full pages and learns from
\* an empty third page that there are no more.
C10_Witness ==
    /\ op = "query"
    /\ Returned
    /\ vendor.total = 2 * SuiteQLLimit
    /\ Len(reqs) = 3
    /\ ItemsIn(resps[3]) = <<>>
    /\ resps[3].body.hasMore = "absent"
    /\ Len(result.list) = 2 * SuiteQLLimit

====
